---- MODULE Spec2Model ----
(***************************************************************************)
(* Model of the group_assignment crate: the capacity precheck, the         *)
(* first-come-first-served assigner and the propose-and-reject assigner    *)
(* with its proposal handling group registries and offers.                 *)
(*                                                                         *)
(* Subjects and groups are identified by their position in the input       *)
(* slices (ids are unique).  subjects[s][g] is the dissatisfaction of      *)
(* subject s toward group g, groups[g] is the capacity of group g.         *)
(* Option values are modelled as sequences: None is <<>>, Some(x) is <<x>>.*)
(***************************************************************************)
EXTENDS Integers, Sequences, FiniteSets, TLC

\* Bounds of the explored inputs.
MaxSubjects == 3
MaxGroups == 3
MaxDissatisfaction == 1
MaxCapacity == 2

\* Bounds of the inputs explored for FirstComeFirstServed alone, where the order
\* of the subjects matters and every order is explored.
FcfsMaxSubjects == 2
FcfsMaxGroups == 2
FcfsMaxDissatisfaction == 1
FcfsMaxCapacity == 1

VARIABLES
    subjects,                      \* input: per subject, dissatisfaction per group
    groups,                        \* input: per group, capacity
    pc,                            \* position of the caller / of the running assign
    fcfs_registries,               \* FirstComeFirstServed: Vec<SimpleGroupRegistry>
    fcfs_subject,                  \* FirstComeFirstServed: position of the subject loop
    fcfs_unassigned,               \* subjects for which no registry qualified
    fcfs_result,                   \* value returned by FirstComeFirstServed::assign
    group_registries,              \* first_step: Vec<ProposalHandlingGroupRegistry>
    unprocessed_subjects_indices,  \* first_step: HashSet<usize>
    overfull,                      \* assign / proposal_round: overfull registries
    bystanders,                    \* assign / proposal_round: full, not overfull
    available,                     \* assign / proposal_round: not full after first step
    overfull_index,                \* proposal_round: position of the overfull loop
    subjects_for_reprocessing,     \* proposal_round: evicted subjects
    last_transfer,                 \* record of the latest transfer call
    last_reprocessing,             \* record of the latest reprocessing pass
    pr_result,                     \* value returned by ProposeAndReject::assign
    previous_result,               \* value returned by an earlier call on the same input
    offer_inputs,                  \* offers handed to the comparison operators
    offer_orderings,               \* what cmp and eq returned for them
    rounds,                        \* assign: turns of the while loop completed
    round_start_excess,            \* total excess when the current round began
    registry,                      \* a ProposalHandlingGroupRegistry called on its own
    call                           \* the latest call on it and what it returned

vars == <<subjects, groups, pc, fcfs_registries, fcfs_subject, fcfs_unassigned,
          fcfs_result, group_registries, unprocessed_subjects_indices, overfull,
          bystanders, available, overfull_index, subjects_for_reprocessing,
          last_transfer, last_reprocessing, pr_result, previous_result,
          offer_inputs, offer_orderings, rounds, round_start_excess, registry, call>>

fcfs_vars == <<fcfs_registries, fcfs_subject, fcfs_unassigned, fcfs_result>>
pr_vars == <<group_registries, unprocessed_subjects_indices, overfull, bystanders,
             available, overfull_index, subjects_for_reprocessing, last_transfer,
             last_reprocessing, pr_result>>
offer_vars == <<offer_inputs, offer_orderings>>
round_vars == <<rounds, round_start_excess>>
registry_vars == <<registry, call>>

----------------------------------------------------------------------------
\* Generic helpers

None == <<>>
Some(x) == <<x>>
IsSome(o) == o /= <<>>
Unwrap(o) == o[1]

Range(seq) == {seq[i] : i \in 1..Len(seq)}

RECURSIVE SumSeq(_)
SumSeq(seq) == IF seq = <<>> THEN 0 ELSE seq[1] + SumSeq(Tail(seq))

InsertAt(seq, i, x) == SubSeq(seq, 1, i - 1) \o <<x>> \o SubSeq(seq, i, Len(seq))
RemoveAt(seq, i) == SubSeq(seq, 1, i - 1) \o SubSeq(seq, i + 1, Len(seq))

\* The element of a singleton.  An operator binds a value it uses more than
\* once as the element of a singleton, so that it is computed once.
The(S) == CHOOSE x \in S : TRUE

\* Mutant of FirstMin: the last of the minimal positions
FirstMin_mutant(idx, keys) ==
    IF idx = {} THEN 0
    ELSE CHOOSE i \in idx :
            /\ \A j \in idx : keys[i] <= keys[j]
            /\ \A j \in idx : j > i => keys[j] > keys[i]

\* Iterator::min_by over the positions idx of keys: the first position among
\* those of minimal key, 0 when there is no position.
FirstMin(idx, keys) ==
    The({IF I = {} THEN 0
         ELSE CHOOSE i \in I :
                 /\ \A j \in I : K[i] <= K[j]
                 /\ \A j \in I : j < i => K[j] > K[i]
         : I \in {idx}, K \in {keys}})

\* All orders in which a HashSet can be iterated.
Orders(S) == {seq \in [1..Cardinality(S) -> S] : Range(seq) = S}

----------------------------------------------------------------------------
\* Subjects and groups

NumSubjects == Len(subjects)
NumGroups == Len(groups)
dissatisfaction(s, g) == subjects[s][g]
capacity(g) == groups[g]

\* Mutant of sufficient_capacity: an exactly matching capacity is refused
sufficient_capacity_mutant == SumSeq(groups) > NumSubjects

\* Assigner::sufficient_capacity: Ok iff the summed capacity covers the subjects
sufficient_capacity == SumSeq(groups) >= NumSubjects

----------------------------------------------------------------------------
\* Group registries (group_management.rs)

SimpleGroupRegistry(g, members) == [group |-> g, subjects |-> members]

\* Mutant of full: a registry only counts as full once it is beyond capacity
full_mutant(r) == Len(r.subjects) > capacity(r.group)

full(r) == Len(r.subjects) >= capacity(r.group)

\* SimpleGroupRegistry::register_subject: Err(CapacityError) leaves it as it is
simple_register_subject(r, s) ==
    IF full(r) THEN [ok |-> FALSE, registry |-> r]
    ELSE [ok |-> TRUE, registry |-> [r EXCEPT !.subjects = Append(@, s)]]

\* Mutant of best_available: the full registries are not filtered out
best_available_mutant(s, registries) ==
    FirstMin(1..Len(registries),
             [i \in 1..Len(registries) |-> dissatisfaction(s, registries[i].group)])

\* The registry picked by subject_to_best_available_group_registry: the first
\* of the not full registries of least dissatisfaction, 0 when all are full.
best_available(s, registries) ==
    FirstMin({i \in 1..Len(registries) : ~full(registries[i])},
             [i \in 1..Len(registries) |-> dissatisfaction(s, registries[i].group)])

\* Mutant of FoldOrder: the popped registry is forgotten
FoldOrder_mutant(registries) ==
    IF registries = <<>> THEN <<>>
    ELSE SubSeq(registries, 1, Len(registries) - 1)

\* assign_from_group_registries: the maps of the last registry, extended by
\* the maps of the others in order (a later extension overwrites a key).
FoldOrder(registries) ==
    IF registries = <<>> THEN <<>>
    ELSE <<registries[Len(registries)]>> \o SubSeq(registries, 1, Len(registries) - 1)

assign_from_group_registries(registries) ==
    LET order == FoldOrder(registries)
        lastWith(s) == CHOOSE i \in 1..Len(order) :
                          /\ s \in Range(order[i].subjects)
                          /\ \A j \in (i + 1)..Len(order) : s \notin Range(order[j].subjects)
        lastOf(g) == CHOOSE i \in 1..Len(order) :
                          /\ order[i].group = g
                          /\ \A j \in (i + 1)..Len(order) : order[j].group /= g
    IN [status |-> "Ok",
        subject_ids_to_group_ids |->
            [s \in UNION {Range(order[i].subjects) : i \in 1..Len(order)}
                |-> order[lastWith(s)].group],
        group_ids_to_subjects_ids |->
            [g \in {order[i].group : i \in 1..Len(order)} |-> order[lastOf(g)].subjects]]

\* Err(TotalCapacityError {}): no Assignment is returned
TotalCapacityError ==
    [status |-> "TotalCapacityError",
     subject_ids_to_group_ids |-> <<>>, group_ids_to_subjects_ids |-> <<>>]

\* assign has not returned yet
NoResult ==
    [status |-> "Pending",
     subject_ids_to_group_ids |-> <<>>, group_ids_to_subjects_ids |-> <<>>]

NoTransfer == [donor |-> 0, destination |-> 0, subject |-> 0, evicted |-> None,
               destination_before |-> <<>>, offer |-> None]

NoCall == [operation |-> "none"]

----------------------------------------------------------------------------
\* Inputs: any dissatisfaction table and any capacities within the bounds
Inputs ==
    \E n \in 0..MaxSubjects, k \in 0..MaxGroups :
        /\ subjects \in [1..n -> [1..k -> 0..MaxDissatisfaction]]
        /\ groups \in [1..k -> 0..MaxCapacity]

\* Lexicographic order on the rows of the dissatisfaction table
RowLeq(a, b) ==
    \/ a = b
    \/ \E i \in 1..Len(a) : a[i] < b[i] /\ \A j \in 1..(i - 1) : a[j] = b[j]

\* ProposeAndReject visits the subjects in the iteration order of a HashSet,
\* which may be any order; its runs are therefore the same for every order of
\* the input subjects and one order per multiset of rows is explored.
Canonical == \A i \in 1..(Len(subjects) - 1) : RowLeq(subjects[i], subjects[i + 1])

Idle ==
    /\ fcfs_registries = <<>>
    /\ fcfs_subject = 0
    /\ fcfs_unassigned = {}
    /\ fcfs_result = NoResult
    /\ group_registries = <<>>
    /\ unprocessed_subjects_indices = {}
    /\ overfull = <<>>
    /\ bystanders = <<>>
    /\ available = <<>>
    /\ overfull_index = 0
    /\ subjects_for_reprocessing = <<>>
    /\ last_transfer = NoTransfer
    /\ last_reprocessing = <<>>
    /\ pr_result = NoResult
    /\ rounds = 0
    /\ round_start_excess = 0
    /\ registry = <<>>
    /\ call = NoCall
    /\ previous_result = NoResult
    /\ offer_inputs = <<>>
    /\ offer_orderings = <<>>

\* A call of ProposeAndReject::assign
Init == Inputs /\ Canonical /\ pc = "pr_assign" /\ Idle

\* Inputs of FirstComeFirstServed: any table and any capacities, in any order
InputsFCFS ==
    \E n \in 0..FcfsMaxSubjects, k \in 0..FcfsMaxGroups :
        /\ subjects \in [1..n -> [1..k -> 0..FcfsMaxDissatisfaction]]
        /\ groups \in [1..k -> 0..FcfsMaxCapacity]

\* A call of FirstComeFirstServed::assign
InitFCFS == InputsFCFS /\ pc = "fcfs_assign" /\ Idle

\* A call of either assigner on any input within the wider bounds
InitEither ==
    /\ Inputs
    /\ pc \in {"pr_assign", "fcfs_assign"}
    /\ (pc = "pr_assign" => Canonical)
    /\ Idle

\* A caller that hands the same input to both assigners.  The first call,
\* FirstComeFirstServed::assign, takes the subjects in input order, so the
\* rows of the table come in any order.
InitBoth == Inputs /\ pc = "fcfs_assign" /\ Idle

\* Contested inputs: two groups without capacity are listed before two groups
\* of the largest capacity, the ratings reach one step further and the last
\* group is the last resort of every subject.
ContestedInputs ==
    /\ groups = <<0, 0, MaxCapacity, MaxCapacity>>
    /\ subjects \in [1..MaxSubjects -> [1..4 -> 0..(MaxDissatisfaction + 1)]]
    /\ \A s \in 1..MaxSubjects : subjects[s][4] = MaxDissatisfaction + 1

InitContested == ContestedInputs /\ Canonical /\ pc = "pr_assign" /\ Idle

----------------------------------------------------------------------------
\* FirstComeFirstServed::assign

\* The precheck and the creation of one empty registry per group.
FcfsStart ==
    /\ pc = "fcfs_assign"
    /\ IF sufficient_capacity
       THEN /\ fcfs_registries' = [g \in 1..NumGroups |-> SimpleGroupRegistry(g, <<>>)]
            /\ fcfs_subject' = 1
            /\ pc' = "fcfs_subjects"
            /\ UNCHANGED fcfs_result
       ELSE /\ fcfs_result' = TotalCapacityError
            /\ pc' = "fcfs_done"
            /\ UNCHANGED <<fcfs_registries, fcfs_subject>>
    /\ UNCHANGED <<subjects, groups, fcfs_unassigned, pr_vars>>
    /\ UNCHANGED <<previous_result, offer_vars, registry_vars, round_vars>>

\* One turn of the loop over the subjects: subject_to_best_available_group_registry
FcfsSubject ==
    /\ pc = "fcfs_subjects"
    /\ fcfs_subject <= NumSubjects
    /\ LET s == fcfs_subject
           i == best_available(s, fcfs_registries)
       IN IF i = 0
          THEN /\ fcfs_unassigned' = fcfs_unassigned \cup {s}
               /\ UNCHANGED fcfs_registries
          ELSE /\ fcfs_registries' =
                     [fcfs_registries EXCEPT ![i] = simple_register_subject(@, s).registry]
               /\ UNCHANGED fcfs_unassigned
    /\ fcfs_subject' = fcfs_subject + 1
    /\ UNCHANGED <<subjects, groups, pc, fcfs_result, pr_vars>>
    /\ UNCHANGED <<previous_result, offer_vars, registry_vars, round_vars>>

\* The fold of the registries into the returned Assignment
FcfsFinish ==
    /\ pc = "fcfs_subjects"
    /\ fcfs_subject > NumSubjects
    /\ fcfs_result' = assign_from_group_registries(fcfs_registries)
    /\ pc' = "fcfs_done"
    /\ UNCHANGED <<subjects, groups, fcfs_registries, fcfs_subject, fcfs_unassigned, pr_vars>>
    /\ UNCHANGED <<previous_result, offer_vars, registry_vars, round_vars>>

----------------------------------------------------------------------------
\* Offers (proposals/offers/mod.rs)

MembershipOffer(rating, improvement) ==
    [dissatisfaction_rating |-> rating, dissatisfaction_improvement |-> improvement]

TransferralOffer(key, offer) == [subject_lookup_key |-> key, membership_offer |-> offer]

IntCmp(a, b) == IF a < b THEN -1 ELSE IF a > b THEN 1 ELSE 0

\* Mutant of OptionCmp: None is above every Some
OptionCmp_mutant(a, b) ==
    IF ~IsSome(a) THEN (IF IsSome(b) THEN 1 ELSE 0)
    ELSE IF ~IsSome(b) THEN -1
    ELSE IntCmp(Unwrap(a), Unwrap(b))

\* Ord for Option<i32>: None is below every Some
OptionCmp(a, b) ==
    IF ~IsSome(a) THEN (IF IsSome(b) THEN -1 ELSE 0)
    ELSE IF ~IsSome(b) THEN 1
    ELSE IntCmp(Unwrap(a), Unwrap(b))

\* Mutant of membership_offer_cmp: the improvement is not looked at
membership_offer_cmp_mutant(a, b) ==
    IntCmp(a.dissatisfaction_rating, b.dissatisfaction_rating)

\* Ord for MembershipOffer: by rating, then by improvement
membership_offer_cmp(a, b) ==
    LET ordering == IntCmp(a.dissatisfaction_rating, b.dissatisfaction_rating)
    IN IF ordering = 0
       THEN OptionCmp(a.dissatisfaction_improvement, b.dissatisfaction_improvement)
       ELSE ordering

membership_offer_eq(a, b) == membership_offer_cmp(a, b) = 0

\* Mutant of transferral_offer_eq: the derived equality, which compares the keys too
transferral_offer_eq_mutant(a, b) ==
    /\ a.subject_lookup_key = b.subject_lookup_key
    /\ membership_offer_eq(a.membership_offer, b.membership_offer)

\* Ord and PartialEq for TransferralOffer: only by the membership offer
transferral_offer_cmp(a, b) == membership_offer_cmp(a.membership_offer, b.membership_offer)
transferral_offer_eq(a, b) == membership_offer_eq(a.membership_offer, b.membership_offer)

replace_least_happy_member_upon_transferral(offer) ==
    IsSome(offer.membership_offer.dissatisfaction_improvement)

----------------------------------------------------------------------------
\* Proposal handling group registries (proposals/mod.rs)

new_without_dissatisfaction(g, members) ==
    [group |-> g, subjects |-> members, highest_dissatisfaction |-> 0]

\* Mutant of overfull_registry: a registry at its capacity already counts as overfull
overfull_registry_mutant(r) == Len(r.subjects) >= capacity(r.group)

overfull_registry(r) == Len(r.subjects) > capacity(r.group)

SetMax(S) == CHOOSE x \in S : \A y \in S : y <= x
SetMin(S) == CHOOSE x \in S : \A y \in S : x <= y

\* ProposalHandlingGroupRegistry::register_subject: the subject is inserted at
\* the index of the last member that is not more dissatisfied (at the front
\* when there is none); the cache becomes the rating of the last member.
register_subject(r, s) ==
    IF full(r) THEN [ok |-> FALSE, registry |-> r]
    ELSE LET id == r.group
             new_member_dissatisfaction_rating == dissatisfaction(s, id)
             rposition == {i \in 1..Len(r.subjects) :
                              dissatisfaction(r.subjects[i], id)
                                  <= new_member_dissatisfaction_rating}
             inserted == IF rposition /= {} THEN InsertAt(r.subjects, SetMax(rposition), s)
                         ELSE InsertAt(r.subjects, 1, s)
         IN The({[ok |-> TRUE,
                  registry |-> [group |-> id,
                                subjects |-> members,
                                highest_dissatisfaction |->
                                    dissatisfaction(members[Len(members)], id)]]
                 : members \in {inserted}})

\* force_register_subject: inserted at the index of the first member that is
\* at least as dissatisfied; nothing happens when there is no such member.
force_register_subject(r, s) ==
    LET id == r.group
        hits == {i \in 1..Len(r.subjects) :
                    dissatisfaction(s, id) <= dissatisfaction(r.subjects[i], id)}
    IN IF hits /= {} THEN [r EXCEPT !.subjects = InsertAt(@, SetMin(hits), s)]
       ELSE r

\* Mutant of handle_membership_proposal: a full registry also takes a
\* candidate that is exactly as dissatisfied as its least happy member
handle_membership_proposal_mutant(r, s) ==
    LET dissatisfaction_rating == dissatisfaction(s, r.group)
        dissatisfaction_improvement == dissatisfaction_rating - r.highest_dissatisfaction
    IN IF Len(r.subjects) >= capacity(r.group)
       THEN IF dissatisfaction_improvement > 0 THEN None
            ELSE Some(MembershipOffer(dissatisfaction_rating,
                                      Some(dissatisfaction_improvement)))
       ELSE Some(MembershipOffer(dissatisfaction_rating, None))

handle_membership_proposal(r, s) ==
    LET dissatisfaction_rating == dissatisfaction(s, r.group)
        dissatisfaction_improvement == dissatisfaction_rating - r.highest_dissatisfaction
    IN IF Len(r.subjects) >= capacity(r.group)
       THEN IF dissatisfaction_improvement >= 0 THEN None
            ELSE Some(MembershipOffer(dissatisfaction_rating,
                                      Some(dissatisfaction_improvement)))
       ELSE Some(MembershipOffer(dissatisfaction_rating, None))

\* Mutant of proposed_member: the dissatisfaction toward the proposing
\* registry's own group is compared
proposed_member_mutant(r, other) ==
    FirstMin(1..Len(r.subjects),
             [i \in 1..Len(r.subjects) |-> dissatisfaction(r.subjects[i], r.group)])

\* The member proposed to other: the first of least dissatisfaction toward
\* other's group (1-based position, 0 when the registry is empty).
proposed_member(r, other) ==
    FirstMin(1..Len(r.subjects),
             [i \in 1..Len(r.subjects) |-> dissatisfaction(r.subjects[i], other.group)])

\* propose_transferral; subject_lookup_key is the 0-based index of the member
propose_transferral(r, other) ==
    The({IF key = 0 THEN None
         ELSE The({IF IsSome(offer) THEN Some(TransferralOffer(key - 1, Unwrap(offer)))
                   ELSE None
                   : offer \in {handle_membership_proposal(other, r.subjects[key])}})
         : key \in {proposed_member(r, other)}})

\* Mutant of replace_least_happy_member: the least happy member is read but
\* not popped before the new member is registered
replace_least_happy_member_mutant(r, s) ==
    IF r.subjects = <<>> THEN [panic |-> TRUE, registry |-> r, replaced |-> None]
    ELSE The({[panic |-> ~registered.ok, registry |-> registered.registry,
               replaced |-> Some(r.subjects[Len(r.subjects)])]
              : registered \in {register_subject(r, s)}})

\* Group::propose_transferral of groups_of_subjects/proposals, the earlier
\* implementation: other is asked about every member and the first of the
\* least offers it makes is returned
propose_transferral_earlier(r, other) ==
    LET offers == [key \in 1..Len(r.subjects) |->
                      handle_membership_proposal(other, r.subjects[key])]
        some == {key \in 1..Len(offers) : IsSome(offers[key])}
    IN IF some = {} THEN None
       ELSE LET least == CHOOSE i \in some :
                   /\ \A j \in some :
                         membership_offer_cmp(Unwrap(offers[i]), Unwrap(offers[j])) <= 0
                   /\ \A j \in some :
                         j < i => membership_offer_cmp(Unwrap(offers[j]),
                                                       Unwrap(offers[i])) > 0
            IN Some(TransferralOffer(least - 1, Unwrap(offers[least])))

\* replace_least_happy_member: pop, then register_subject; both are unwrapped
replace_least_happy_member(r, s) ==
    IF r.subjects = <<>> THEN [panic |-> TRUE, registry |-> r, replaced |-> None]
    ELSE LET least_happy_member == r.subjects[Len(r.subjects)]
             popped == [r EXCEPT !.subjects = SubSeq(@, 1, Len(@) - 1)]
         IN The({[panic |-> ~registered.ok, registry |-> registered.registry,
                  replaced |-> Some(least_happy_member)]
                 : registered \in {register_subject(popped, s)}})

\* Mutant of transfer: the transferred subject also stays with the donor
transfer_mutant(r, other, offer) ==
    LET subject_to_be_transferred == r.subjects[offer.subject_lookup_key + 1]
    IN IF replace_least_happy_member_upon_transferral(offer)
       THEN The({[panic |-> replaced.panic, donor |-> r, other |-> replaced.registry,
                  replaced_subject |-> replaced.replaced]
                 : replaced \in
                       {replace_least_happy_member(other, subject_to_be_transferred)}})
       ELSE The({[panic |-> ~registered.ok, donor |-> r, other |-> registered.registry,
                  replaced_subject |-> None]
                 : registered \in {register_subject(other, subject_to_be_transferred)}})

\* transfer: the donor loses the member at the lookup key, other receives it
transfer(r, other, offer) ==
    LET subject_to_be_transferred == r.subjects[offer.subject_lookup_key + 1]
        donor == [r EXCEPT !.subjects = RemoveAt(@, offer.subject_lookup_key + 1)]
    IN IF replace_least_happy_member_upon_transferral(offer)
       THEN The({[panic |-> replaced.panic, donor |-> donor, other |-> replaced.registry,
                  replaced_subject |-> replaced.replaced]
                 : replaced \in
                       {replace_least_happy_member(other, subject_to_be_transferred)}})
       ELSE The({[panic |-> ~registered.ok, donor |-> donor, other |-> registered.registry,
                  replaced_subject |-> None]
                 : registered \in {register_subject(other, subject_to_be_transferred)}})

----------------------------------------------------------------------------
\* ProposeAndReject::assign (propose_and_reject/mod.rs)

\* subject_to_best_available_group_registry over proposal handling registries
subject_to_best_available_group_registry(s, registries) ==
    The({IF i = 0 THEN registries
         ELSE [registries EXCEPT ![i] = register_subject(@, s).registry]
         : i \in {best_available(s, registries)}})

\* subject_to_most_desired_group_registry: force registration into the first
\* registry of least dissatisfaction
subject_to_most_desired_group_registry(registries, s) ==
    The({IF i = 0 THEN registries
         ELSE [registries EXCEPT ![i] = force_register_subject(@, s)]
         : i \in {FirstMin(1..Len(registries),
                           [j \in 1..Len(registries) |->
                               dissatisfaction(s, registries[j].group)])}})

RECURSIVE reprocess(_, _)
reprocess(registries, evicted) ==
    IF evicted = <<>> THEN registries
    ELSE The({reprocess(updated, Tail(evicted))
              : updated \in {subject_to_most_desired_group_registry(registries, evicted[1])}})

\* The completed rounds are counted up to one more than the number of pairs
\* of a subject and a group of the largest input
RoundsCap == (MaxSubjects + 1) * (MaxGroups + 1) + 1

\* By how many members a registry exceeds the capacity of its group, and the
\* sum over a list of registries
Excess(r) == IF overfull_registry(r) THEN Len(r.subjects) - capacity(r.group) ELSE 0
TotalExcess(registries) ==
    SumSeq([i \in 1..Len(registries) |-> Excess(registries[i])])

IsFull(r) == full(r)

\* Mutant of IsNotFull: a registry holding exactly its capacity also counts
\* as not full
IsNotFull_mutant(r) == ~overfull_registry(r)

IsNotFull(r) == ~full(r)
IsOverfull(r) == overfull_registry(r)
IsNotOverfull(r) == ~overfull_registry(r)

\* Mutant of first_choice_indices: a rating of 1 also counts as a first choice
first_choice_indices_mutant(unprocessed, group) ==
    {i \in unprocessed : dissatisfaction(i, group) <= 1}

\* first_step, the loop over the groups: each group, in input order, gets a
\* registry holding the still unprocessed subjects of dissatisfaction 0, in
\* the iteration order of the HashSet.  The set of possible outcomes.
first_choice_indices(unprocessed, group) ==
    {i \in unprocessed : dissatisfaction(i, group) = 0}

RECURSIVE first_step_groups(_, _, _)
first_step_groups(group, unprocessed, registries) ==
    IF group > NumGroups
    THEN {[group_registries |-> registries, unprocessed_subjects_indices |-> unprocessed]}
    ELSE UNION {first_step_groups(group + 1, still_unprocessed, extended)
                : still_unprocessed \in
                      {unprocessed \ first_choice_indices(unprocessed, group)},
                  extended \in
                      {Append(registries,
                              new_without_dissatisfaction(group,
                                                          subjects_processed_this_iteration))
                       : subjects_processed_this_iteration \in
                             Orders(first_choice_indices(unprocessed, group))}}

\* The precheck of ProposeAndReject::assign
PrStart ==
    /\ pc = "pr_assign"
    /\ IF sufficient_capacity
       THEN /\ unprocessed_subjects_indices' = 1..NumSubjects
            /\ pc' = "first_step"
            /\ UNCHANGED pr_result
       ELSE /\ pr_result' = TotalCapacityError
            /\ pc' = "done"
            /\ UNCHANGED unprocessed_subjects_indices
    /\ rounds' = 0
    /\ round_start_excess' = 0
    /\ UNCHANGED <<subjects, groups, fcfs_vars, group_registries, overfull, bystanders,
                   available, overfull_index, subjects_for_reprocessing, last_transfer,
                   last_reprocessing>>
    /\ UNCHANGED <<previous_result, offer_vars, registry_vars>>

\* first_step up to the end of its loop over the groups
FirstStepGroups ==
    /\ pc = "first_step"
    /\ \E outcome \in first_step_groups(1, unprocessed_subjects_indices, <<>>) :
          /\ group_registries' = outcome.group_registries
          /\ unprocessed_subjects_indices' = outcome.unprocessed_subjects_indices
          /\ pc' = IF outcome.unprocessed_subjects_indices /= {}
                   THEN "no_first_choice" ELSE "partition"
    /\ UNCHANGED <<subjects, groups, fcfs_vars, overfull, bystanders, available,
                   overfull_index, subjects_for_reprocessing, last_transfer,
                   last_reprocessing, pr_result>>
    /\ UNCHANGED <<previous_result, offer_vars, registry_vars, round_vars>>

\* handle_subjects_without_first_choice_first_step, one turn of its loop
NoFirstChoiceSubject ==
    /\ pc = "no_first_choice"
    /\ \E s \in unprocessed_subjects_indices :
          /\ group_registries' = subject_to_best_available_group_registry(s, group_registries)
          /\ unprocessed_subjects_indices' = unprocessed_subjects_indices \ {s}
          /\ pc' = IF unprocessed_subjects_indices = {s} THEN "partition"
                   ELSE "no_first_choice"
    /\ UNCHANGED <<subjects, groups, fcfs_vars, overfull, bystanders, available,
                   overfull_index, subjects_for_reprocessing, last_transfer,
                   last_reprocessing, pr_result>>
    /\ UNCHANGED <<previous_result, offer_vars, registry_vars, round_vars>>

\* assign: the registries are split into overfull, bystanders and available
Partition ==
    /\ pc = "partition"
    /\ available' = SelectSeq(group_registries, IsNotFull)
    /\ overfull' = SelectSeq(SelectSeq(group_registries, IsFull), IsOverfull)
    /\ bystanders' = SelectSeq(SelectSeq(group_registries, IsFull), IsNotOverfull)
    /\ group_registries' = <<>>
    /\ overfull_index' = 1
    /\ pc' = IF \E i \in 1..Len(group_registries) : IsOverfull(group_registries[i])
             THEN "proposal_round" ELSE "finish"
    /\ round_start_excess' = TotalExcess(group_registries)
    /\ UNCHANGED <<subjects, groups, fcfs_vars, unprocessed_subjects_indices,
                   subjects_for_reprocessing, last_transfer, last_reprocessing, pr_result>>
    /\ UNCHANGED <<previous_result, offer_vars, registry_vars, rounds>>

\* The offers the available registries make to an overfull registry
offers_for(overfull_group) ==
    [i \in 1..Len(available) |-> propose_transferral(overfull_group, available[i])]

\* Mutant of transfer_destination_key: the last of the least offers
transfer_destination_key_mutant(offers) ==
    LET some == {i \in 1..Len(offers) : IsSome(offers[i])}
    IN IF some = {} THEN 0
       ELSE CHOOSE i \in some :
               /\ \A j \in some : transferral_offer_cmp(Unwrap(offers[i]), Unwrap(offers[j])) <= 0
               /\ \A j \in some :
                     j > i => transferral_offer_cmp(Unwrap(offers[j]), Unwrap(offers[i])) > 0

\* min_by over the offers that are Some: the first of the least offers
transfer_destination_key(offers) ==
    LET some == {i \in 1..Len(offers) : IsSome(offers[i])}
    IN IF some = {} THEN 0
       ELSE CHOOSE i \in some :
               /\ \A j \in some : transferral_offer_cmp(Unwrap(offers[i]), Unwrap(offers[j])) <= 0
               /\ \A j \in some :
                     j < i => transferral_offer_cmp(Unwrap(offers[j]), Unwrap(offers[i])) > 0

\* proposal_round, one turn of the loop over the overfull registries
ProposeAndTransfer ==
    /\ pc = "proposal_round"
    /\ overfull_index <= Len(overfull)
    /\ \E overfull_group \in {overfull[overfull_index]} :
       \E offers \in {offers_for(overfull_group)} :
       \E key \in {transfer_destination_key(offers)} :
          IF key = 0
          THEN /\ pc' = "panic"
               /\ UNCHANGED <<overfull, available, subjects_for_reprocessing,
                              overfull_index, last_transfer>>
          ELSE \E offer \in {Unwrap(offers[key])} :
               \E moved \in {transfer(overfull_group, available[key], offer)} :
                  IF moved.panic
                  THEN /\ pc' = "panic"
                       /\ UNCHANGED <<overfull, available, subjects_for_reprocessing,
                                      overfull_index, last_transfer>>
                  ELSE /\ overfull' = [overfull EXCEPT ![overfull_index] = moved.donor]
                       /\ available' = [available EXCEPT ![key] = moved.other]
                       /\ subjects_for_reprocessing' =
                             IF IsSome(moved.replaced_subject)
                             THEN Append(subjects_for_reprocessing,
                                         Unwrap(moved.replaced_subject))
                             ELSE subjects_for_reprocessing
                       /\ last_transfer' =
                             [donor |-> overfull_group.group,
                              destination |-> available[key].group,
                              subject |-> overfull_group.subjects[offer.subject_lookup_key + 1],
                              evicted |-> moved.replaced_subject,
                              destination_before |-> available[key].subjects,
                              offer |-> Some(offer)]
                       /\ overfull_index' = overfull_index + 1
                       /\ pc' = IF overfull_index = Len(overfull)
                                THEN "next_round" ELSE "proposal_round"
    /\ UNCHANGED <<subjects, groups, fcfs_vars, group_registries,
                   unprocessed_subjects_indices, bystanders, last_reprocessing, pr_result>>
    /\ UNCHANGED <<previous_result, offer_vars, registry_vars, round_vars>>

\* group_registries_for_next_proposal_round: the evicted subjects are force
\* registered among overfull and bystanders, which are then split again
NextProposalRound ==
    /\ pc = "next_round"
    /\ \E registries_for_update \in
             {reprocess(overfull \o bystanders, subjects_for_reprocessing)} :
          /\ overfull' = SelectSeq(registries_for_update, IsOverfull)
          /\ bystanders' = SelectSeq(registries_for_update, IsNotOverfull)
          /\ pc' = IF \E i \in 1..Len(registries_for_update) :
                         IsOverfull(registries_for_update[i])
                   THEN "proposal_round" ELSE "finish"
          /\ round_start_excess' = TotalExcess(registries_for_update \o available)
    /\ rounds' = IF rounds < RoundsCap THEN rounds + 1 ELSE rounds
    /\ last_reprocessing' = subjects_for_reprocessing
    /\ subjects_for_reprocessing' = <<>>
    /\ overfull_index' = 1
    /\ UNCHANGED <<subjects, groups, fcfs_vars, group_registries,
                   unprocessed_subjects_indices, available, last_transfer, pr_result>>
    /\ UNCHANGED <<previous_result, offer_vars, registry_vars>>

\* assign: available and bystanders are folded into the Assignment
Finish ==
    /\ pc = "finish"
    /\ pr_result' = assign_from_group_registries(available \o bystanders)
    /\ pc' = "done"
    /\ UNCHANGED <<subjects, groups, fcfs_vars, group_registries,
                   unprocessed_subjects_indices, overfull, bystanders, available,
                   overfull_index, subjects_for_reprocessing, last_transfer,
                   last_reprocessing>>
    /\ UNCHANGED <<previous_result, offer_vars, registry_vars, round_vars>>

Next ==
    \/ PrStart
    \/ FirstStepGroups
    \/ NoFirstChoiceSubject
    \/ Partition
    \/ ProposeAndTransfer
    \/ NextProposalRound
    \/ Finish

Spec == Init /\ [][Next]_vars

\* assign runs to completion: a step that can be taken is taken
FairSpec == Spec /\ WF_vars(Next)

NextFCFS ==
    \/ FcfsStart
    \/ FcfsSubject
    \/ FcfsFinish

SpecFCFS == InitFCFS /\ [][NextFCFS]_vars

\* A caller that runs both assigners on the same input, FirstComeFirstServed
\* first
CallProposeAndReject ==
    /\ pc = "fcfs_done"
    /\ pc' = "pr_assign"
    /\ UNCHANGED <<subjects, groups, fcfs_vars, pr_vars>>
    /\ UNCHANGED <<previous_result, offer_vars, registry_vars, round_vars>>

NextBoth ==
    \/ FcfsStart
    \/ FcfsSubject
    \/ FcfsFinish
    \/ CallProposeAndReject
    \/ PrStart
    \/ FirstStepGroups
    \/ NoFirstChoiceSubject
    \/ Partition
    \/ ProposeAndTransfer
    \/ NextProposalRound
    \/ Finish

SpecBoth == InitBoth /\ [][NextBoth]_vars

\* A call of either assigner
NextEither == Next \/ NextFCFS

SpecEither == InitEither /\ [][NextEither]_vars

\* ProposeAndReject::assign on the contested inputs
SpecContested == InitContested /\ [][Next]_vars

\* Inputs with a returning subject: one more subject than in the other
\* inputs, a first group without capacity that each subject either has as
\* its first choice or rates like its last resort, the last group, a group of
\* the largest capacity and two groups of capacity 1.
ReturningInputs ==
    /\ groups = <<0, MaxCapacity, 1, 1>>
    /\ subjects \in [1..(MaxSubjects + 1) -> [1..4 -> 0..(MaxDissatisfaction + 1)]]
    /\ \A s \in 1..(MaxSubjects + 1) :
          /\ subjects[s][4] = MaxDissatisfaction + 1
          /\ subjects[s][1] \in {0, MaxDissatisfaction + 1}

InitReturning == ReturningInputs /\ Canonical /\ pc = "pr_assign" /\ Idle

SpecReturning == InitReturning /\ [][Next]_vars

\* The input of tests::assign: groups 101..105 are positions 1..5, the
\* dissatisfaction of a TestSubject is the position of the group in its
\* preference list
ScenarioPreferences ==
    <<<<1, 2, 3, 4, 5>>, <<1, 2, 3, 4, 5>>, <<1, 2, 3, 4, 5>>,
      <<2, 1, 4, 3, 5>>, <<2, 1, 4, 3, 5>>,
      <<3, 4, 5, 2, 1>>, <<3, 4, 5, 2, 1>>, <<3, 4, 5, 2, 1>>>>

\* TestSubject::dissatisfaction: the 0-based position of the group in the
\* preferences, their length when the group is not listed
PreferencePosition(preferences, g) ==
    IF \E i \in 1..Len(preferences) : preferences[i] = g
    THEN SetMin({i \in 1..Len(preferences) : preferences[i] = g}) - 1
    ELSE Len(preferences)

\* The inputs of the tests of ProposeAndReject: tests::assign, and
\* tests::assign_no_first_choice, whose two subjects rate both groups of
\* capacity 1 with 1
InitScenario ==
    /\ \/ /\ groups = <<1, 1, 1, 3, 3>>
          /\ subjects = [s \in 1..Len(ScenarioPreferences) |->
                            [g \in 1..5 |-> PreferencePosition(ScenarioPreferences[s], g)]]
       \/ /\ groups = <<1, 1>>
          /\ subjects = <<<<1, 1>>, <<1, 1>>>>
    /\ pc = "pr_assign"
    /\ Idle

SpecScenario == InitScenario /\ [][Next]_vars

\* The caller keeps the returned value and calls ProposeAndReject::assign once
\* more with the same subjects and groups; nothing of the first call is left
CallAgain ==
    /\ pc = "done"
    /\ previous_result = NoResult
    /\ previous_result' = pr_result
    /\ pc' = "pr_assign"
    /\ group_registries' = <<>>
    /\ unprocessed_subjects_indices' = {}
    /\ overfull' = <<>>
    /\ bystanders' = <<>>
    /\ available' = <<>>
    /\ overfull_index' = 0
    /\ subjects_for_reprocessing' = <<>>
    /\ last_transfer' = NoTransfer
    /\ last_reprocessing' = <<>>
    /\ pr_result' = NoResult
    /\ rounds' = 0
    /\ round_start_excess' = 0
    /\ UNCHANGED <<subjects, groups, fcfs_vars, offer_vars, registry_vars>>

NextTwice ==
    \/ PrStart
    \/ FirstStepGroups
    \/ NoFirstChoiceSubject
    \/ Partition
    \/ ProposeAndTransfer
    \/ NextProposalRound
    \/ Finish
    \/ CallAgain

SpecTwice == Init /\ [][NextTwice]_vars

\* The offers that are compared: any lookup key, any rating and any
\* improvement, also the positive ones that no registry produces
OfferInputs ==
    {TransferralOffer(key, MembershipOffer(rating, improvement)) :
        key \in 0..(MaxSubjects - 1),
        rating \in 0..MaxDissatisfaction,
        improvement \in {None} \cup
                        {Some(x) : x \in (0 - MaxDissatisfaction)..MaxDissatisfaction}}

\* Three offers are about to be compared with each other
InitOffers ==
    /\ subjects = <<>>
    /\ groups = <<>>
    /\ pc = "offers"
    /\ fcfs_registries = <<>>
    /\ fcfs_subject = 0
    /\ fcfs_unassigned = {}
    /\ fcfs_result = NoResult
    /\ group_registries = <<>>
    /\ unprocessed_subjects_indices = {}
    /\ overfull = <<>>
    /\ bystanders = <<>>
    /\ available = <<>>
    /\ overfull_index = 0
    /\ subjects_for_reprocessing = <<>>
    /\ last_transfer = NoTransfer
    /\ last_reprocessing = <<>>
    /\ pr_result = NoResult
    /\ rounds = 0
    /\ round_start_excess = 0
    /\ registry = <<>>
    /\ call = NoCall
    /\ previous_result = NoResult
    /\ offer_inputs \in [1..3 -> OfferInputs]
    /\ offer_orderings = <<>>

\* Every pair of the three offers is compared: Ord::cmp and PartialEq::eq of
\* the membership offers and of the transferral offers wrapping them
CompareOffers ==
    /\ pc = "offers"
    /\ offer_orderings' =
          [membership_cmp |->
              [i \in 1..3 |-> [j \in 1..3 |->
                  membership_offer_cmp(offer_inputs[i].membership_offer,
                                       offer_inputs[j].membership_offer)]],
           membership_eq |->
              [i \in 1..3 |-> [j \in 1..3 |->
                  membership_offer_eq(offer_inputs[i].membership_offer,
                                      offer_inputs[j].membership_offer)]],
           transferral_cmp |->
              [i \in 1..3 |-> [j \in 1..3 |->
                  transferral_offer_cmp(offer_inputs[i], offer_inputs[j])]],
           transferral_eq |->
              [i \in 1..3 |-> [j \in 1..3 |->
                  transferral_offer_eq(offer_inputs[i], offer_inputs[j])]]]
    /\ pc' = "offers_compared"
    /\ UNCHANGED <<subjects, groups, fcfs_vars, pr_vars, previous_result, offer_inputs,
                   round_vars, registry_vars>>

NextOffers == CompareOffers

SpecOffers == InitOffers /\ [][NextOffers]_vars

----------------------------------------------------------------------------
\* One registry called on its own: built as first_step builds it, then
\* register_subject, force_register_subject and the removal of a member, as
\* transfer does it on the donor, in any order

\* One group of any capacity, the ratings reach one step further
RegistryInputs ==
    /\ groups \in [1..1 -> 0..MaxCapacity]
    /\ subjects \in [1..MaxSubjects -> [1..1 -> 0..(MaxDissatisfaction + 1)]]

InitRegistry == RegistryInputs /\ Canonical /\ pc = "registry_new" /\ Idle

\* first_step: the registry gets subjects of dissatisfaction 0, in any order
NewRegistry ==
    /\ pc = "registry_new"
    /\ \E members \in SUBSET first_choice_indices(1..NumSubjects, 1) :
       \E order \in Orders(members) :
          registry' = new_without_dissatisfaction(1, order)
    /\ pc' = "registry"
    /\ UNCHANGED <<subjects, groups, fcfs_vars, pr_vars, previous_result, offer_vars,
                   round_vars, call>>

\* register_subject of the registry and of the SimpleGroupRegistry it wraps
RegisterSubject ==
    /\ pc = "registry"
    /\ \E s \in (1..NumSubjects) \ Range(registry.subjects) :
       \E registered \in {register_subject(registry, s)} :
       \E delegate \in {simple_register_subject(
                            SimpleGroupRegistry(registry.group, registry.subjects), s)} :
          /\ registry' = registered.registry
          /\ call' = [operation |-> "register_subject", subject |-> s, before |-> registry,
                      ok |-> registered.ok, delegate_ok |-> delegate.ok,
                      delegate_subjects |-> delegate.registry.subjects]
    /\ UNCHANGED <<subjects, groups, pc, fcfs_vars, pr_vars, previous_result, offer_vars,
                   round_vars>>

ForceRegisterSubject ==
    /\ pc = "registry"
    /\ \E s \in (1..NumSubjects) \ Range(registry.subjects) :
          /\ registry' = force_register_subject(registry, s)
          /\ call' = [operation |-> "force_register_subject", subject |-> s,
                      before |-> registry]
    /\ UNCHANGED <<subjects, groups, pc, fcfs_vars, pr_vars, previous_result, offer_vars,
                   round_vars>>

\* transfer, on the donor: the member at the lookup key is removed
RemoveMember ==
    /\ pc = "registry"
    /\ \E key \in 1..Len(registry.subjects) :
          /\ registry' = [registry EXCEPT !.subjects = RemoveAt(@, key)]
          /\ call' = [operation |-> "remove", subject |-> registry.subjects[key],
                      before |-> registry]
    /\ UNCHANGED <<subjects, groups, pc, fcfs_vars, pr_vars, previous_result, offer_vars,
                   round_vars>>

NextRegistry ==
    \/ NewRegistry
    \/ RegisterSubject
    \/ ForceRegisterSubject
    \/ RemoveMember

SpecRegistry == InitRegistry /\ [][NextRegistry]_vars

----------------------------------------------------------------------------
\* Observations

Members(registries) == UNION {Range(registries[i].subjects) : i \in 1..Len(registries)}

RECURSIVE Occurrences(_, _)
Occurrences(registries, s) ==
    IF registries = <<>> THEN 0
    ELSE Cardinality({i \in 1..Len(registries[1].subjects) : registries[1].subjects[i] = s})
         + Occurrences(Tail(registries), s)

\* Number of occurrences of subject s in the group lists of a result
ListedIn(result, s) ==
    LET m == result.group_ids_to_subjects_ids
        gs == DOMAIN m
        RECURSIVE count(_)
        count(G) == IF G = {} THEN 0
                    ELSE LET g == CHOOSE x \in G : TRUE
                         IN Cardinality({i \in 1..Len(m[g]) : m[g][i] = s}) + count(G \ {g})
    IN count(gs)

RECURSIVE SumOver(_, _)
SumOver(S, f) ==
    IF S = {} THEN 0
    ELSE LET x == CHOOSE y \in S : TRUE IN f[x] + SumOver(S \ {x}, f)

ListSizes(result) ==
    SumOver(DOMAIN result.group_ids_to_subjects_ids,
            [g \in DOMAIN result.group_ids_to_subjects_ids |->
                Len(result.group_ids_to_subjects_ids[g])])

TotalDissatisfaction(result) ==
    SumOver(DOMAIN result.subject_ids_to_group_ids,
            [s \in DOMAIN result.subject_ids_to_group_ids |->
                dissatisfaction(s, result.subject_ids_to_group_ids[s])])

----------------------------------------------------------------------------
\* Claims

TotalCapacity == SumOver(DOMAIN groups, groups)

AllRegistries == group_registries \o overfull \o bystanders \o available

Returned(result) == result.status = "Ok"

\* C1: when ProposeAndReject::assign returns an Assignment, every input
\* subject is listed exactly once over all group lists and the sizes of the
\* lists sum to the number of subjects.
C1_Conservation ==
    (pc = "done" /\ Returned(pr_result)) =>
        /\ \A s \in 1..NumSubjects : ListedIn(pr_result, s) = 1
        /\ ListSizes(pr_result) = NumSubjects

\* C2: in the Assignment returned by either assigner no group list is longer
\* than the capacity of its group.
C2_CapacityInResult ==
    \A result \in {fcfs_result, pr_result} :
        Returned(result) =>
            \A g \in DOMAIN result.group_ids_to_subjects_ids :
                Len(result.group_ids_to_subjects_ids[g]) <= groups[g]

\* A propose-and-reject run that went through an overfull group has returned
C2_Witness ==
    /\ pc = "done"
    /\ Returned(pr_result)
    /\ last_transfer /= NoTransfer

\* C3: both assigners return TotalCapacityError exactly when the summed
\* capacity is below the number of subjects; in that case no registry is ever
\* created, no subject registered and no Assignment returned.
C3_Precheck ==
    /\ pc = "fcfs_done" =>
          (fcfs_result = TotalCapacityError <=> TotalCapacity < NumSubjects)
    /\ pc = "done" =>
          (pr_result = TotalCapacityError <=> TotalCapacity < NumSubjects)
    /\ TotalCapacity < NumSubjects =>
          /\ fcfs_registries = <<>>
          /\ AllRegistries = <<>>
          /\ ~Returned(fcfs_result)
          /\ ~Returned(pr_result)
          /\ pc \in {"fcfs_assign", "fcfs_done", "pr_assign", "done"}

\* ProposeAndReject::assign has returned the error
C3_Witness ==
    /\ pc = "done"
    /\ pr_result = TotalCapacityError
    /\ NumSubjects > 0

\* C4: on every input that passes the precheck the run of
\* ProposeAndReject::assign eventually returns an Assignment, with no
\* registry overfull.
C4_Termination ==
    (TotalCapacity >= NumSubjects) =>
        <>(/\ pc = "done"
           /\ Returned(pr_result)
           /\ overfull = <<>>
           /\ \A i \in 1..Len(bystanders \o available) :
                 ~IsOverfull((bystanders \o available)[i]))

\* A run that needed proposal rounds has returned
C4_Witness ==
    /\ pc = "done"
    /\ Returned(pr_result)
    /\ last_transfer /= NoTransfer
    /\ last_reprocessing /= <<>>

\* C5: when the precheck passes, FirstComeFirstServed finds a registry that
\* is not full for every subject, and every subject is listed exactly once in
\* the returned Assignment.
C5_FcfsConservation ==
    /\ fcfs_unassigned = {}
    /\ (pc = "fcfs_done" /\ Returned(fcfs_result)) =>
          /\ \A s \in 1..NumSubjects : ListedIn(fcfs_result, s) = 1
          /\ DOMAIN fcfs_result.subject_ids_to_group_ids = 1..NumSubjects

\* FirstComeFirstServed returned after a subject met a full group
C5_Witness ==
    /\ pc = "fcfs_done"
    /\ Returned(fcfs_result)
    /\ NumSubjects = FcfsMaxSubjects
    /\ \E g \in 1..NumGroups :
          /\ groups[g] > 0
          /\ Len(fcfs_result.group_ids_to_subjects_ids[g]) = groups[g]

\* The members of FirstComeFirstServed's registry of group g that were
\* registered before the turn of subject s
FcfsBefore(g, s) ==
    Cardinality({i \in 1..Len(fcfs_registries[g].subjects) :
                    fcfs_registries[g].subjects[i] < s})

\* C6: FirstComeFirstServed places each subject, in input order, into the
\* group that has the lowest dissatisfaction among the groups not full at
\* that moment, the first such group in input order.
C6_FcfsRule ==
    pc = "fcfs_subjects" =>
        \A s \in 1..(fcfs_subject - 1) : \A g \in 1..NumGroups :
            s \in Range(fcfs_registries[g].subjects) =>
                LET open == {h \in 1..NumGroups : FcfsBefore(h, s) < groups[h]}
                IN /\ g \in open
                   /\ \A h \in open : subjects[s][g] <= subjects[s][h]
                   /\ \A h \in open : h < g => subjects[s][h] > subjects[s][g]

\* A subject was placed behind a tie and another one next to a full group
C6_Witness ==
    /\ pc = "fcfs_subjects"
    /\ fcfs_subject > NumSubjects
    /\ \E s \in 1..NumSubjects : \E g, h \in 1..NumGroups :
          /\ g < h
          /\ s \in Range(fcfs_registries[g].subjects)
          /\ subjects[s][g] = subjects[s][h]
          /\ FcfsBefore(h, s) < groups[h]
    /\ \E s \in 1..NumSubjects : \E g, h \in 1..NumGroups :
          /\ s \in Range(fcfs_registries[g].subjects)
          /\ subjects[s][h] < subjects[s][g]
          /\ FcfsBefore(h, s) >= groups[h]

\* The first group, in input order, toward which subject s has dissatisfaction 0
FirstChoice(s) ==
    IF \E g \in 1..NumGroups : subjects[s][g] = 0
    THEN SetMin({g \in 1..NumGroups : subjects[s][g] = 0})
    ELSE 0

\* Every subject has a first choice and no group is the first choice of more
\* subjects than it can hold
FirstChoicesFit ==
    /\ \A s \in 1..NumSubjects : FirstChoice(s) /= 0
    /\ \A g \in 1..NumGroups :
          Cardinality({s \in 1..NumSubjects : FirstChoice(s) = g}) <= groups[g]

BothReturned == pc = "done" /\ Returned(fcfs_result) /\ Returned(pr_result)

\* C7 as stated: whenever both assigners return an Assignment, the total
\* dissatisfaction of ProposeAndReject's is at most that of
\* FirstComeFirstServed's.
C7_Original ==
    BothReturned =>
        TotalDissatisfaction(pr_result) <= TotalDissatisfaction(fcfs_result)

\* C7 amended: the comparison holds when every subject has a group of
\* dissatisfaction 0 and the first choices fit the capacities; the total of
\* ProposeAndReject is then 0.
C7_TotalDissatisfaction ==
    (BothReturned /\ FirstChoicesFit) =>
        /\ DOMAIN pr_result.subject_ids_to_group_ids = 1..NumSubjects
        /\ TotalDissatisfaction(pr_result) = 0
        /\ TotalDissatisfaction(pr_result) <= TotalDissatisfaction(fcfs_result)

\* Both returned on fitting first choices that fill a group to its capacity
C7_Witness ==
    /\ BothReturned
    /\ FirstChoicesFit
    /\ NumSubjects = MaxSubjects
    /\ \E g \in 1..NumGroups :
          /\ groups[g] > 1
          /\ Len(pr_result.group_ids_to_subjects_ids[g]) = groups[g]
          /\ Len(fcfs_result.group_ids_to_subjects_ids[g]) = groups[g]

\* The highest dissatisfaction among the members of a registry, 0 if empty
MemberMax(r) ==
    IF r.subjects = <<>> THEN 0
    ELSE SetMax({subjects[r.subjects[i]][r.group] : i \in 1..Len(r.subjects)})

\* What the decline rule prescribes for candidate c at registry r
DeclineRule(r, c) ==
    LET rating == subjects[c][r.group]
    IN IF Len(r.subjects) < groups[r.group] THEN Some(MembershipOffer(rating, None))
       ELSE IF \A i \in 1..Len(r.subjects) : subjects[r.subjects[i]][r.group] <= rating
            THEN None
            ELSE Some(MembershipOffer(rating, Some(rating - MemberMax(r))))

\* C8: whenever an overfull registry proposes its member to an available
\* registry, the answer follows the decline rule: nothing iff the registry is
\* full and no member is more dissatisfied than the candidate, an offer
\* without eviction if it is not full, and otherwise an offer whose
\* improvement is the candidate's rating minus the highest member rating.
C8_DeclineRule ==
    (pc = "proposal_round" /\ overfull_index <= Len(overfull)) =>
        \A i \in 1..Len(available) :
            LET donor == overfull[overfull_index]
                key == proposed_member(donor, available[i])
            IN key /= 0 =>
                  handle_membership_proposal(available[i], donor.subjects[key])
                      = DeclineRule(available[i], donor.subjects[key])

\* C9: the subject evicted by a transfer was of maximal dissatisfaction among
\* the members of the destination, and strictly more dissatisfied than the
\* subject that replaces it.
C9_EvictsMostDissatisfied ==
    IsSome(last_transfer.evicted) =>
        LET g == last_transfer.destination
            e == Unwrap(last_transfer.evicted)
        IN /\ \A i \in 1..Len(last_transfer.destination_before) :
                 subjects[last_transfer.destination_before[i]][g] <= subjects[e][g]
           /\ subjects[e][g] > subjects[last_transfer.subject][g]

\* C10: right after the reprocessing of a round, every subject evicted in
\* that round is a member of a registry whose group has the lowest
\* dissatisfaction for it over all input groups.
C10_EvictedReturnsToFirstChoice ==
    (pc \in {"proposal_round", "finish"} /\ overfull_index = 1) =>
        \A k \in 1..Len(last_reprocessing) :
            LET s == last_reprocessing[k]
            IN \E i \in 1..Len(AllRegistries) :
                  /\ s \in Range(AllRegistries[i].subjects)
                  /\ \A g \in 1..NumGroups :
                        subjects[s][AllRegistries[i].group] <= subjects[s][g]

\* The offers have been compared
Compared == pc = "offers_compared"

Rating(i) == offer_inputs[i].membership_offer.dissatisfaction_rating
Improvement(i) == offer_inputs[i].membership_offer.dissatisfaction_improvement

\* C11: at equal rating the offer without eviction compares strictly less
\* than the offer with an eviction, is not equal to it, and the reverse
\* comparison is not "less"; the same for the transferral offers around them.
C11_NoEvictionFirst ==
    Compared =>
        \A i, j \in 1..3 :
            (Rating(i) = Rating(j) /\ ~IsSome(Improvement(i)) /\ IsSome(Improvement(j))) =>
                /\ offer_orderings.membership_cmp[i][j] = -1
                /\ offer_orderings.membership_cmp[j][i] /= -1
                /\ ~offer_orderings.membership_eq[i][j]
                /\ offer_orderings.transferral_cmp[i][j] = -1
                /\ offer_orderings.transferral_cmp[j][i] /= -1
                /\ ~offer_orderings.transferral_eq[i][j]

\* An offer without eviction was compared with an eviction offer of its rating
C11_Witness ==
    /\ Compared
    /\ Rating(1) = Rating(2)
    /\ Improvement(1) = None
    /\ IsSome(Improvement(2))
    /\ offer_inputs[1].subject_lookup_key /= offer_inputs[2].subject_lookup_key

\* C12: the order of the membership offers is lexicographic, strict and
\* total: a lower rating is less whatever the improvements; at equal rating
\* the more negative improvement is less; less is transitive and asymmetric;
\* two offers are equal exactly when both fields are equal.
C12_LexicographicOrder ==
    Compared =>
        /\ \A i, j \in 1..3 :
              /\ Rating(i) < Rating(j) => offer_orderings.membership_cmp[i][j] = -1
              /\ (/\ Rating(i) = Rating(j)
                  /\ IsSome(Improvement(i)) /\ IsSome(Improvement(j))
                  /\ Unwrap(Improvement(i)) < Unwrap(Improvement(j)))
                     => offer_orderings.membership_cmp[i][j] = -1
              /\ offer_orderings.membership_cmp[i][j] = -1
                     => offer_orderings.membership_cmp[j][i] = 1
              /\ offer_orderings.membership_eq[i][j]
                     <=> (Rating(i) = Rating(j) /\ Improvement(i) = Improvement(j))
              /\ offer_orderings.membership_cmp[i][j] = 0
                     <=> offer_orderings.membership_eq[i][j]
        /\ \A i, j, k \in 1..3 :
              (/\ offer_orderings.membership_cmp[i][j] = -1
               /\ offer_orderings.membership_cmp[j][k] = -1)
                  => offer_orderings.membership_cmp[i][k] = -1

\* A chain of three was compared: none, the most negative and a less negative
\* improvement at one rating
C12_Witness ==
    /\ Compared
    /\ Rating(1) = Rating(2) /\ Rating(2) = Rating(3)
    /\ Improvement(1) = None
    /\ IsSome(Improvement(2)) /\ IsSome(Improvement(3))
    /\ Unwrap(Improvement(2)) < Unwrap(Improvement(3))
    /\ offer_orderings.membership_cmp[1][2] = -1
    /\ offer_orderings.membership_cmp[2][3] = -1

\* C13: transferral offers are ordered and equal exactly as their membership
\* offers are, whatever their lookup keys.
C13_TransferralByMembership ==
    Compared =>
        \A i, j \in 1..3 :
            /\ offer_orderings.transferral_cmp[i][j] = offer_orderings.membership_cmp[i][j]
            /\ offer_orderings.transferral_eq[i][j] = offer_orderings.membership_eq[i][j]
            /\ (Rating(i) = Rating(j) /\ Improvement(i) = Improvement(j))
                   => offer_orderings.transferral_eq[i][j]

\* Two transferral offers of different keys and equal membership offers, and
\* two of the same key and different membership offers, were compared
C13_Witness ==
    /\ Compared
    /\ offer_inputs[1].subject_lookup_key /= offer_inputs[2].subject_lookup_key
    /\ offer_inputs[1].membership_offer = offer_inputs[2].membership_offer
    /\ offer_inputs[3].subject_lookup_key = offer_inputs[1].subject_lookup_key
    /\ offer_inputs[3].membership_offer /= offer_inputs[1].membership_offer

\* C14: a second call of ProposeAndReject::assign on the same subjects and
\* groups returns the subject-to-group map of the first call.
C14_Determinism ==
    (pc = "done" /\ Returned(previous_result) /\ Returned(pr_result)) =>
        pr_result.subject_ids_to_group_ids = previous_result.subject_ids_to_group_ids

\* C15: on the input of tests::assign every run of ProposeAndReject::assign
\* returns an Assignment with exactly 2 subjects in the last group and a
\* total dissatisfaction of 12, and no run panics.
C15_ReferenceScenario ==
    /\ pc /= "panic"
    /\ (pc = "done" /\ groups = <<1, 1, 1, 3, 3>>) =>
          /\ Returned(pr_result)
          /\ Len(pr_result.group_ids_to_subjects_ids[5]) = 2
          /\ TotalDissatisfaction(pr_result) = 12
          /\ DOMAIN pr_result.subject_ids_to_group_ids = 1..8

\* The scenario has returned after proposal rounds that moved a subject into
\* the last group
C15_Witness ==
    /\ pc = "done"
    /\ NumSubjects = 8
    /\ groups = <<1, 1, 1, 3, 3>>
    /\ Returned(pr_result)
    /\ last_transfer /= NoTransfer
    /\ pr_result.group_ids_to_subjects_ids[5] /= <<>>

\* Every subject has the same positive dissatisfaction toward every group
NoFirstChoices ==
    /\ NumSubjects > 0
    /\ NumGroups > 0
    /\ subjects[1][1] > 0
    /\ \A s \in 1..NumSubjects : \A g \in 1..NumGroups : subjects[s][g] = subjects[1][1]

\* C16: when no subject has a first choice and the precheck passes,
\* ProposeAndReject::assign returns an Assignment that lists every subject
\* once and fills no group beyond its capacity; two such subjects and two
\* groups of capacity 1 end with one subject per group.
C16_NoFirstChoice ==
    (pc = "done" /\ NoFirstChoices /\ TotalCapacity >= NumSubjects) =>
        /\ Returned(pr_result)
        /\ \A s \in 1..NumSubjects : ListedIn(pr_result, s) = 1
        /\ DOMAIN pr_result.subject_ids_to_group_ids = 1..NumSubjects
        /\ \A g \in 1..NumGroups :
              Len(pr_result.group_ids_to_subjects_ids[g]) <= groups[g]
        /\ (NumSubjects = 2 /\ groups = <<1, 1>>) =>
              \A g \in 1..2 : Len(pr_result.group_ids_to_subjects_ids[g]) = 1

\* The input of tests::assign_no_first_choice has been assigned
C16_Witness ==
    /\ pc = "done"
    /\ NoFirstChoices
    /\ NumSubjects = 2
    /\ groups = <<1, 1>>
    /\ Returned(pr_result)

\* C17: once first_step has gone through the groups, every subject that has
\* dissatisfaction 0 toward some group is a member, once, of the registry of
\* the first such group in input order and of no other registry; the
\* capacities play no part.
C17_FirstChoicePass ==
    pc \in {"no_first_choice", "partition"} =>
        \A s \in 1..NumSubjects :
            FirstChoice(s) /= 0 =>
                \A g \in 1..NumGroups :
                    Cardinality({i \in 1..Len(group_registries[g].subjects) :
                                    group_registries[g].subjects[i] = s})
                        = (IF g = FirstChoice(s) THEN 1 ELSE 0)

\* The first step has left a registry with more members than its capacity,
\* and some subject has dissatisfaction 0 toward a second, later group
C17_Witness ==
    /\ pc = "partition"
    /\ \E g \in 1..NumGroups : Len(group_registries[g].subjects) > groups[g]
    /\ \E s \in 1..NumSubjects : \E g \in 1..NumGroups :
          /\ FirstChoice(s) /= 0
          /\ FirstChoice(s) < g
          /\ subjects[s][g] = 0

\* No group is the first choice of more subjects than it can hold
FirstChoicesWithinCapacity ==
    \A g \in 1..NumGroups :
        Cardinality({s \in 1..NumSubjects : FirstChoice(s) = g}) <= groups[g]

\* The first step has left no registry with more members than its capacity
NothingOverfull ==
    \A i \in 1..Len(group_registries) :
        Len(group_registries[i].subjects) <= groups[group_registries[i].group]

\* Without an overfull registry the partition leads to the fold at once and
\* keeps every registry as it is
PartitionWithoutRounds ==
    (pc = "partition" /\ NothingOverfull) =>
        /\ pc' = "finish"
        /\ overfull' = <<>>
        /\ Len(available' \o bystanders') = Len(group_registries)
        /\ \A i \in 1..Len(group_registries) :
              \E j \in 1..Len(available' \o bystanders') :
                  (available' \o bystanders')[j] = group_registries[i]

\* The fold lists for every group the members of its registry, in their order
FinishKeepsMembership ==
    (pc = "finish" /\ pc' = "done") =>
        \A i \in 1..Len(available \o bystanders) :
            pr_result'.group_ids_to_subjects_ids[(available \o bystanders)[i].group]
                = (available \o bystanders)[i].subjects

\* C18: when the first step leaves no group overfull, no proposal round is
\* run and the returned Assignment is the membership after the first step:
\* every subject that has a group of dissatisfaction 0 is assigned to the
\* first such group.
C18_NoRoundsNeeded ==
    /\ []((pc = "done" /\ FirstChoicesWithinCapacity /\ TotalCapacity >= NumSubjects) =>
            /\ Returned(pr_result)
            /\ last_transfer = NoTransfer
            /\ last_reprocessing = <<>>
            /\ \A s \in 1..NumSubjects :
                  FirstChoice(s) /= 0 =>
                      /\ s \in DOMAIN pr_result.subject_ids_to_group_ids
                      /\ pr_result.subject_ids_to_group_ids[s] = FirstChoice(s)
                      /\ ListedIn(pr_result, s) = 1)
    /\ [][PartitionWithoutRounds /\ FinishKeepsMembership]_vars

\* A single group that is exactly full has been returned without a round
C18_Witness ==
    /\ pc = "done"
    /\ NumGroups = 1
    /\ NumSubjects = groups[1]
    /\ NumSubjects > 1
    /\ \A s \in 1..NumSubjects : FirstChoice(s) = 1
    /\ Returned(pr_result)
    /\ last_transfer = NoTransfer

\* The two maps of a result say the same and list no subject twice
MapsAgree(result) ==
    /\ \A s \in 1..NumSubjects :
          /\ ListedIn(result, s) <= 1
          /\ \A g \in DOMAIN result.group_ids_to_subjects_ids :
                (s \in Range(result.group_ids_to_subjects_ids[g]))
                    <=> (/\ s \in DOMAIN result.subject_ids_to_group_ids
                         /\ result.subject_ids_to_group_ids[s] = g)
    /\ \A s \in DOMAIN result.subject_ids_to_group_ids :
          result.subject_ids_to_group_ids[s] \in DOMAIN result.group_ids_to_subjects_ids

\* The result holds what the folded registries held, and nothing else
FoldOf(result, registries) ==
    /\ DOMAIN result.group_ids_to_subjects_ids =
          {registries[i].group : i \in 1..Len(registries)}
    /\ DOMAIN result.subject_ids_to_group_ids =
          UNION {Range(registries[i].subjects) : i \in 1..Len(registries)}
    /\ \A i \in 1..Len(registries) :
          /\ result.group_ids_to_subjects_ids[registries[i].group] = registries[i].subjects
          /\ \A s \in Range(registries[i].subjects) :
                result.subject_ids_to_group_ids[s] = registries[i].group
    /\ registries = <<>> =>
          /\ result.subject_ids_to_group_ids = <<>>
          /\ result.group_ids_to_subjects_ids = <<>>

\* C19: in every returned Assignment subject s maps to group g exactly when
\* s is in the list of g and no subject is listed twice; the fold of the
\* registries, whose members are disjoint and whose groups are distinct,
\* keeps every membership, and the fold of no registry gives two empty maps.
C19_MapsAgree ==
    /\ [](\A result \in {fcfs_result, pr_result} : Returned(result) => MapsAgree(result))
    /\ [][/\ ((pc = "fcfs_subjects" /\ pc' = "fcfs_done")
                  => FoldOf(fcfs_result', fcfs_registries))
           /\ ((pc = "finish" /\ pc' = "done")
                  => FoldOf(pr_result', available \o bystanders))]_vars

\* A fold of several registries with members has returned, from either assigner
C19_Witness ==
    \/ /\ pc = "done"
       /\ Returned(pr_result)
       /\ Cardinality({g \in DOMAIN pr_result.group_ids_to_subjects_ids :
                          pr_result.group_ids_to_subjects_ids[g] /= <<>>}) > 1
       /\ last_transfer /= NoTransfer
    \/ /\ pc = "fcfs_done"
       /\ Returned(fcfs_result)
       /\ NumSubjects = MaxSubjects
       /\ Cardinality({g \in DOMAIN fcfs_result.group_ids_to_subjects_ids :
                          fcfs_result.group_ids_to_subjects_ids[g] /= <<>>}) > 1

\* The members of a registry ascend in dissatisfaction toward its group
SortedMembers(r) ==
    \A i \in 1..(Len(r.subjects) - 1) :
        dissatisfaction(r.subjects[i], r.group) <= dissatisfaction(r.subjects[i + 1], r.group)

\* C20: every Proposal-Handling Registry, built sorted and changed only by
\* register_subject, force_register_subject and transfer, keeps its members
\* sorted ascending by dissatisfaction toward its group, so that its last
\* member is one of maximal dissatisfaction.
C20_Sortedness ==
    \A i \in 1..Len(AllRegistries) :
        /\ SortedMembers(AllRegistries[i])
        /\ AllRegistries[i].subjects /= <<>> =>
              \A s \in Range(AllRegistries[i].subjects) :
                  dissatisfaction(s, AllRegistries[i].group)
                      <= dissatisfaction(AllRegistries[i].subjects[Len(AllRegistries[i].subjects)],
                                         AllRegistries[i].group)

\* The highest dissatisfaction of the members of a registry toward its group
MaxMemberDissatisfaction(r) ==
    IF r.subjects = <<>> THEN 0
    ELSE SetMax({dissatisfaction(s, r.group) : s \in Range(r.subjects)})

\* C21: in every state of a propose-and-reject run the cached highest
\* dissatisfaction of each registry equals the maximum dissatisfaction of
\* its current members toward its group, and 0 when it has no member.
C21_CacheInvariant ==
    \A i \in 1..Len(AllRegistries) :
        AllRegistries[i].highest_dissatisfaction = MaxMemberDissatisfaction(AllRegistries[i])

\* The number of members over a list of registries
MemberCount(registries) ==
    SumSeq([i \in 1..Len(registries) |-> Len(registries[i].subjects)])

\* C22: force_register_subject always inserts: when the evicted subjects of a
\* round, members of no registry, are force registered, each of them is a
\* member afterwards and the member count has grown by one for each of
\* them, whatever their dissatisfaction relative to the current members.
C22_ForceRegisterInserts ==
    [][(pc = "next_round" /\ pc' /= "next_round") =>
          /\ \A k \in 1..Len(subjects_for_reprocessing) :
                \E i \in 1..Len(overfull' \o bystanders') :
                    subjects_for_reprocessing[k] \in Range((overfull' \o bystanders')[i].subjects)
          /\ MemberCount(overfull' \o bystanders')
                = MemberCount(overfull \o bystanders) + Len(subjects_for_reprocessing)]_vars

\* A subject with positive dissatisfaction toward every group
WithoutFirstChoice(s) == \A g \in 1..NumGroups : dissatisfaction(s, g) > 0

\* The registries that are not full, by position
NotFullRegistries(registries) == {i \in 1..Len(registries) : ~full(registries[i])}

\* C23 as stated: in step 1 a subject without first choice becomes a member
\* of the registry of a group that minimizes its dissatisfaction over all
\* groups, whether that group is full or not.
C23_Original ==
    [][(pc = "no_first_choice" /\ unprocessed_subjects_indices' /= unprocessed_subjects_indices) =>
          \E s \in unprocessed_subjects_indices \ unprocessed_subjects_indices' :
          \E i \in 1..Len(group_registries') :
             /\ s \in Range(group_registries'[i].subjects)
             /\ \A g \in 1..NumGroups :
                   dissatisfaction(s, group_registries'[i].group) <= dissatisfaction(s, g)]_vars

\* C23 amended: in step 1 a subject without first choice becomes a member of
\* the first registry of least dissatisfaction among the registries that are
\* not full at that moment; such a registry exists, it grows by that one
\* subject, and no full registry takes the subject.
C23_BestAvailableGroup ==
    [][(pc = "no_first_choice" /\ unprocessed_subjects_indices' /= unprocessed_subjects_indices) =>
          \E s \in unprocessed_subjects_indices \ unprocessed_subjects_indices' :
          \E i \in NotFullRegistries(group_registries) :
             /\ WithoutFirstChoice(s)
             /\ s \in Range(group_registries'[i].subjects)
             /\ Len(group_registries'[i].subjects) = Len(group_registries[i].subjects) + 1
             /\ \A j \in NotFullRegistries(group_registries) :
                   /\ dissatisfaction(s, group_registries[i].group)
                         <= dissatisfaction(s, group_registries[j].group)
                   /\ j < i => dissatisfaction(s, group_registries[j].group)
                                  > dissatisfaction(s, group_registries[i].group)
             /\ \A j \in 1..Len(group_registries) :
                   j /= i => group_registries'[j] = group_registries[j]]_vars

\* A subject without first choice was placed next to a full group with
\* capacity that it likes better
C23_Witness ==
    /\ pc = "partition"
    /\ \E s \in 1..NumSubjects : \E i, j \in 1..Len(group_registries) :
          /\ WithoutFirstChoice(s)
          /\ s \in Range(group_registries[i].subjects)
          /\ groups[group_registries[j].group] > 0
          /\ full(group_registries[j])
          /\ dissatisfaction(s, group_registries[j].group)
                < dissatisfaction(s, group_registries[i].group)

\* C24 as stated: the total excess at the start of the next round (or at the
\* end of the loop) is lower than the total excess the round began with.
C24_Original ==
    [][(pc = "next_round" /\ pc' /= "next_round") =>
          round_start_excess' < round_start_excess]_vars

\* C24 amended: the total excess never grows over a round: at the start of
\* the next round (or at the end of the loop) it is at most the total excess
\* the round began with, and lower by at most one per overfull registry of
\* the round.
C24_ExcessNeverGrows ==
    [][(pc = "next_round" /\ pc' /= "next_round") =>
          /\ round_start_excess' <= round_start_excess
          /\ round_start_excess' >= round_start_excess - Len(overfull)]_vars

\* A round has ended in which an evicted subject returned to a registry that
\* is overfull with it
C24_Witness ==
    /\ pc = "proposal_round"
    /\ overfull_index = 1
    /\ rounds >= 2
    /\ round_start_excess > 0
    /\ \E k \in 1..Len(last_reprocessing) : \E i \in 1..Len(overfull) :
          last_reprocessing[k] \in Range(overfull[i].subjects)

\* C25: for every input that passes the precheck, ProposeAndReject::assign
\* executes at most (number of subjects) x (number of groups) proposal
\* rounds.
C25_BoundedRounds ==
    /\ rounds <= NumSubjects * NumGroups
    /\ rounds < RoundsCap

\* A run of three rounds has returned
C25_Witness ==
    /\ pc = "done"
    /\ Returned(pr_result)
    /\ rounds >= 3

\* An overfull registry is at its turn in a proposal round
AtTurn == pc = "proposal_round" /\ overfull_index <= Len(overfull)

\* C26: in every proposal round of a run that passed the precheck, each
\* overfull registry at its turn, after the transfers of the earlier overfull
\* registries of the round, gets a Transferral Offer from at least one
\* available registry, so that the best offer exists and is unwrapped
\* without a panic.
C26_AlwaysAnOffer ==
    AtTurn =>
        /\ \E i \in 1..Len(available) :
              IsSome(propose_transferral(overfull[overfull_index], available[i]))
        /\ transfer_destination_key(offers_for(overfull[overfull_index])) \in 1..Len(available)

\* A later overfull registry of a round is at its turn, one available
\* registry declines and another makes an offer
C26_Witness ==
    /\ AtTurn
    /\ overfull_index >= 2
    /\ \E i, j \in 1..Len(available) :
          /\ ~IsSome(propose_transferral(overfull[overfull_index], available[i]))
          /\ IsSome(propose_transferral(overfull[overfull_index], available[j]))

\* The transfer that the overfull registry at its turn is about to make
PendingTransfer ==
    LET overfull_group == overfull[overfull_index]
        offers == offers_for(overfull_group)
        key == transfer_destination_key(offers)
    IN [key |-> key,
        offer |-> IF key = 0 THEN None ELSE offers[key],
        moved |-> IF key = 0 THEN None
                  ELSE Some(transfer(overfull_group, available[key], Unwrap(offers[key])))]

\* C27: in every run of either assigner that passed the precheck, each
\* register_subject call that respects capacity (the placement of
\* FirstComeFirstServed, the placement of a subject without first choice in
\* step 1, the transfer without eviction and the registration after the pop
\* of replace_least_happy_member) meets a registry that is not full, and the
\* pop meets a registry with a member: no CapacityError is unwrapped.
C27_NoCapacityError ==
    /\ (pc = "fcfs_subjects" /\ fcfs_subject <= NumSubjects) =>
          \A i \in {best_available(fcfs_subject, fcfs_registries)} \ {0} :
              simple_register_subject(fcfs_registries[i], fcfs_subject).ok
    /\ pc = "no_first_choice" =>
          \A s \in unprocessed_subjects_indices :
          \A i \in {best_available(s, group_registries)} \ {0} :
              register_subject(group_registries[i], s).ok
    /\ (AtTurn /\ PendingTransfer.key /= 0) =>
          /\ ~Unwrap(PendingTransfer.moved).panic
          /\ replace_least_happy_member_upon_transferral(Unwrap(PendingTransfer.offer)) =>
                available[PendingTransfer.key].subjects /= <<>>

\* A transfer that evicted a member has been made without a panic
C27_Witness ==
    /\ pc \in {"proposal_round", "next_round"}
    /\ last_transfer /= NoTransfer
    /\ IsSome(last_transfer.evicted)
    /\ last_transfer.subject \in Range(available[CHOOSE i \in 1..Len(available) :
                                    available[i].group = last_transfer.destination].subjects)

\* C28: register_subject on a registry with at least as many members as its
\* capacity fails with CapacityError and leaves the members and the cached
\* highest dissatisfaction as they were; on a registry with fewer members
\* it succeeds and adds that subject and nothing else.  The
\* SimpleGroupRegistry and the ProposalHandlingGroupRegistry agree on this.
C28_RegisterSubject ==
    call.operation = "register_subject" =>
        IF Len(call.before.subjects) >= groups[call.before.group]
        THEN /\ ~call.ok
             /\ registry = call.before
             /\ ~call.delegate_ok
             /\ call.delegate_subjects = call.before.subjects
        ELSE /\ call.ok
             /\ Len(registry.subjects) = Len(call.before.subjects) + 1
             /\ \E i \in 1..Len(registry.subjects) :
                   /\ registry.subjects[i] = call.subject
                   /\ RemoveAt(registry.subjects, i) = call.before.subjects
             /\ call.delegate_ok
             /\ call.delegate_subjects = Append(call.before.subjects, call.subject)

\* register_subject has failed on a registry that was filled to its capacity
\* by earlier registrations
C28_Witness ==
    /\ call.operation = "register_subject"
    /\ ~call.ok
    /\ groups[1] > 0
    /\ Len(call.before.subjects) >= groups[1]
    /\ call.before.highest_dissatisfaction > 0

\* The positions of the members of r that are least dissatisfied toward the
\* group of other
LeastDissatisfiedToward(r, other) ==
    {i \in 1..Len(r.subjects) :
        \A j \in 1..Len(r.subjects) :
            dissatisfaction(r.subjects[i], other.group)
                <= dissatisfaction(r.subjects[j], other.group)}

\* What C29 says of one proposal of r to other
ProposalAsClaimed(r, other) ==
    LET offer == propose_transferral(r, other)
        lowest == SetMin(LeastDissatisfiedToward(r, other))
    IN /\ IsSome(offer) =>
             /\ Unwrap(offer).subject_lookup_key + 1 = lowest
             /\ Some(Unwrap(offer).membership_offer)
                   = handle_membership_proposal(other, r.subjects[lowest])
       /\ ~IsSome(offer) =>
             \/ r.subjects = <<>>
             \/ ~IsSome(handle_membership_proposal(other, r.subjects[lowest]))
       /\ offer = propose_transferral_earlier(r, other)

\* C29: whenever an overfull registry proposes to an available one,
\* propose_transferral proposes its member of least dissatisfaction toward
\* the other group (the lowest position on ties), returns nothing exactly
\* when the other registry declines that member, and returns the offer the
\* earlier implementation returned: the best of the offers the other
\* registry makes for any of its members.
C29_ProposeTransferral ==
    AtTurn =>
        \A i \in 1..Len(available) :
            ProposalAsClaimed(overfull[overfull_index], available[i])

\* An overfull registry gets an offer with an eviction from a full available
\* registry, for a member that is not its first
C29_Witness ==
    /\ AtTurn
    /\ \E i \in 1..Len(available) :
          /\ IsSome(propose_transferral(overfull[overfull_index], available[i]))
          /\ Unwrap(propose_transferral(overfull[overfull_index],
                                        available[i])).subject_lookup_key > 0
          /\ replace_least_happy_member_upon_transferral(
                 Unwrap(propose_transferral(overfull[overfull_index], available[i])))

\* The subject is a member of none of the registries
MemberOfNone(s, registries) ==
    \A i \in 1..Len(registries) : s \notin Range(registries[i].subjects)

\* The effect of one transfer of proposal_round on the donor, on the
\* destination, on the subjects for reprocessing and on the other registries
TransferEffect ==
    LET donor == overfull[overfull_index]
        key == PendingTransfer.key
        offer == Unwrap(PendingTransfer.offer)
        moved == donor.subjects[offer.subject_lookup_key + 1]
        before == available[key].subjects
        after == available'[key].subjects
    IN /\ overfull'[overfull_index] =
             [donor EXCEPT !.subjects = RemoveAt(@, offer.subject_lookup_key + 1)]
       /\ \A i \in 1..Len(overfull) : i /= overfull_index => overfull'[i] = overfull[i]
       /\ \A i \in 1..Len(available) : i /= key => available'[i] = available[i]
       /\ Len(overfull') = Len(overfull)
       /\ Len(available') = Len(available)
       /\ bystanders' = bystanders
       /\ available'[key].group = available[key].group
       /\ moved \in Range(after)
       /\ IF replace_least_happy_member_upon_transferral(offer)
          THEN /\ Len(after) = Len(before)
               /\ \E evicted \in Range(before) :
                     /\ subjects_for_reprocessing' = Append(subjects_for_reprocessing, evicted)
                     /\ Range(after) = (Range(before) \ {evicted}) \cup {moved}
                     /\ MemberOfNone(evicted, overfull' \o bystanders' \o available')
          ELSE /\ Len(after) = Len(before) + 1
               /\ Range(after) = Range(before) \cup {moved}
               /\ subjects_for_reprocessing' = subjects_for_reprocessing

\* C30: a transfer takes from the donor the subject at the lookup key of the
\* offer and nothing else; without eviction the destination grows by that
\* subject and nothing is returned; with eviction the destination keeps its
\* size, gains the subject and returns one former member, which is then a
\* member of no registry; every other registry stays as it is.
C30_TransferEffect ==
    [][(AtTurn /\ overfull_index' = overfull_index + 1) => TransferEffect]_vars

\* A transfer has evicted a member that now waits for reprocessing and is in
\* no registry
C30_Witness ==
    /\ pc = "next_round"
    /\ IsSome(last_transfer.evicted)
    /\ Len(subjects_for_reprocessing) = 1
    /\ MemberOfNone(subjects_for_reprocessing[1], AllRegistries)

----------------------------------------------------------------------------
\* The three lists of ProposeAndReject::assign

\* The group of every registry of a list, in list order
GroupsOf(registries) == [i \in 1..Len(registries) |-> registries[i].group]

\* A proposal round is about to start, or the loop of assign has been left
RoundBoundary ==
    \/ pc = "proposal_round" /\ overfull_index = 1
    \/ pc = "finish"

\* C31: at the start of every proposal round and at the exit of the loop the
\* overfull, bystander and available lists hold every input group exactly
\* once between them; an overfull registry has more members than its
\* capacity, a bystander exactly its capacity, an available registry at most
\* its capacity.
C31_PartitionInvariant ==
    RoundBoundary =>
        /\ LET all == GroupsOf(overfull) \o GroupsOf(bystanders) \o GroupsOf(available)
           IN /\ Len(all) = NumGroups
              /\ \A g \in 1..NumGroups :
                    Cardinality({i \in 1..Len(all) : all[i] = g}) = 1
        /\ \A i \in 1..Len(overfull) :
              Len(overfull[i].subjects) > capacity(overfull[i].group)
        /\ \A i \in 1..Len(bystanders) :
              Len(bystanders[i].subjects) = capacity(bystanders[i].group)
        /\ \A i \in 1..Len(available) :
              Len(available[i].subjects) <= capacity(available[i].group)

\* A second round starts with a bystander next to an overfull registry and
\* an available registry that has been filled
C31_Witness ==
    /\ pc = "proposal_round"
    /\ overfull_index = 1
    /\ rounds >= 1
    /\ overfull /= <<>>
    /\ bystanders /= <<>>
    /\ \E i \in 1..Len(available) :
          Len(available[i].subjects) = capacity(available[i].group)

\* The groups that were under capacity when first_step returned, in input order
UnderCapacityAfterFirstStep ==
    SelectSeq([g \in 1..Len(group_registries) |-> group_registries[g].group],
              LAMBDA g : Len(group_registries[g].subjects) < capacity(g))

\* C32: the available list is fixed by the initial partition: it holds the
\* registries that were under capacity after the first step, no later step
\* adds, removes or reorders one, and every transfer goes to one of them.
C32_AvailableFixed ==
    [][/\ (pc = "partition" /\ pc' /= "partition")
              => (GroupsOf(available') = UnderCapacityAfterFirstStep)
       /\ (pc \in {"proposal_round", "next_round", "finish"})
              => (GroupsOf(available') = GroupsOf(available))
       /\ (pc = "proposal_round" /\ pc' /= "panic")
              => (\E i \in 1..Len(available) :
                     last_transfer'.destination = available[i].group)]_vars

\* In a later round an available registry that holds exactly its capacity
\* has taken a member by evicting one
C32_Witness ==
    /\ pc \in {"proposal_round", "next_round"}
    /\ rounds >= 1
    /\ last_transfer /= NoTransfer
    /\ IsSome(last_transfer.evicted)
    /\ \E i \in 1..Len(available) :
          /\ available[i].group = last_transfer.destination
          /\ Len(available[i].subjects) = capacity(available[i].group)

\* The available registry at position d makes the least Transferral Offer
\* for the overfull registry r, and is the first to make it
LeastOfferFrom(r, d) ==
    /\ IsSome(propose_transferral(r, available[d]))
    /\ \A j \in 1..Len(available) :
          LET mine == propose_transferral(r, available[d])
              theirs == propose_transferral(r, available[j])
          IN IsSome(theirs) =>
                \/ transferral_offer_cmp(Unwrap(mine), Unwrap(theirs)) < 0
                \/ /\ transferral_offer_cmp(Unwrap(mine), Unwrap(theirs)) = 0
                   /\ d <= j

\* C33: in a proposal round the overfull registries take their turn in list
\* order and each gives away exactly one member, to the first available
\* registry whose Transferral Offer is least given the transfers made so far
\* in the round; the evicted subjects are only collected, and the round goes
\* on to re-register them after the last overfull registry had its turn.
C33_RoundStructure ==
    [][pc = "proposal_round" =>
          /\ pc' = IF overfull_index = Len(overfull) THEN "next_round"
                   ELSE "proposal_round"
          /\ overfull_index' = overfull_index + 1
          /\ Len(overfull') = Len(overfull)
          /\ \A i \in 1..Len(overfull) :
                IF i = overfull_index
                THEN /\ Len(overfull'[i].subjects) = Len(overfull[i].subjects) - 1
                     /\ Range(overfull'[i].subjects) =
                            Range(overfull[i].subjects) \ {last_transfer'.subject}
                ELSE overfull'[i] = overfull[i]
          /\ \E d \in 1..Len(available) :
                /\ LeastOfferFrom(overfull[overfull_index], d)
                /\ last_transfer'.destination = available[d].group
                /\ last_transfer'.subject \in Range(available'[d].subjects)
                /\ \A j \in 1..Len(available) : j /= d => available'[j] = available[j]
          /\ bystanders' = bystanders
          /\ subjects_for_reprocessing' =
                IF IsSome(last_transfer'.evicted)
                THEN Append(subjects_for_reprocessing, Unwrap(last_transfer'.evicted))
                ELSE subjects_for_reprocessing]_vars

\* The second overfull registry of a round has made its transfer after the
\* first one, and a subject that was evicted in the round awaits reprocessing
C33_Witness ==
    /\ pc = "next_round"
    /\ Len(overfull) >= 2
    /\ subjects_for_reprocessing /= <<>>
    /\ last_transfer /= NoTransfer
    /\ last_transfer.donor = overfull[Len(overfull)].group

\* The first registry of a list whose group has the least dissatisfaction
\* for the subject s: no earlier registry is as good, no later one better
FirstMostDesired(registries, s, i) ==
    /\ \A j \in 1..Len(registries) :
          dissatisfaction(s, registries[i].group) <= dissatisfaction(s, registries[j].group)
    /\ \A j \in 1..(i - 1) :
          dissatisfaction(s, registries[i].group) < dissatisfaction(s, registries[j].group)

\* C34: when the evicted subjects of a round are reprocessed, each of them
\* becomes a member of the first registry, in the order overfull registries
\* then bystanders, whose group has the least dissatisfaction for it, and of
\* no available registry.
C34_ReprocessingTarget ==
    [][(pc = "next_round" /\ pc' /= "next_round") =>
          \A k \in 1..Len(subjects_for_reprocessing) :
             LET s == subjects_for_reprocessing[k]
                 merged == overfull \o bystanders
                 updated == overfull' \o bystanders'
             IN /\ \E i \in 1..Len(merged) :
                      /\ FirstMostDesired(merged, s, i)
                      /\ \E j \in 1..Len(updated) :
                            /\ updated[j].group = merged[i].group
                            /\ s \in Range(updated[j].subjects)
                /\ \A a \in 1..Len(available') :
                      s \notin Range(available'[a].subjects)]_vars

\* How often the subject s is listed among the subjects awaiting reprocessing
AwaitingReprocessing(s) ==
    Cardinality({k \in 1..Len(subjects_for_reprocessing) :
                    subjects_for_reprocessing[k] = s})

\* C35: at every point of a propose-and-reject run no subject is a member of
\* two registries, listed twice in one registry, or a member of a registry
\* while it awaits reprocessing.
C35_NoDuplication ==
    \A s \in 1..NumSubjects :
        Occurrences(AllRegistries, s) + AwaitingReprocessing(s) <= 1

\* A transfer with an eviction has been made: the transferred subject has
\* changed registry and the evicted one awaits reprocessing
C35_Witness ==
    /\ pc = "next_round"
    /\ subjects_for_reprocessing /= <<>>
    /\ last_transfer /= NoTransfer
    /\ Occurrences(AllRegistries, last_transfer.subject) = 1
    /\ IsSome(last_transfer.evicted)
    /\ AwaitingReprocessing(Unwrap(last_transfer.evicted)) = 1
    /\ Cardinality(Members(AllRegistries)) >= 2

\* The sum of the dissatisfactions of the members of a registry toward its group
DissatisfactionSum(r) ==
    SumSeq([i \in 1..Len(r.subjects) |-> dissatisfaction(r.subjects[i], r.group)])

\* C36: from the partition on, no step of a run lowers the member count of
\* an available registry, and a transfer that evicts a member leaves the
\* member count of its destination as it was and strictly lowers the sum of
\* the members' dissatisfactions toward the destination's group.
C36_AvailableProgress ==
    [][(pc \in {"proposal_round", "next_round", "finish"}) =>
          /\ Len(available') = Len(available)
          /\ \A i \in 1..Len(available) :
                /\ Len(available'[i].subjects) >= Len(available[i].subjects)
                /\ (/\ pc = "proposal_round"
                    /\ pc' /= "panic"
                    /\ IsSome(last_transfer'.evicted)
                    /\ last_transfer'.destination = available[i].group)
                       => /\ Len(available'[i].subjects) = Len(available[i].subjects)
                          /\ DissatisfactionSum(available'[i])
                                < DissatisfactionSum(available[i])]_vars

\* An available registry holding several members has evicted a member for a
\* less dissatisfied one
C36_Witness ==
    /\ pc \in {"proposal_round", "next_round"}
    /\ last_transfer /= NoTransfer
    /\ IsSome(last_transfer.evicted)
    /\ Len(last_transfer.destination_before) >= 2
    /\ dissatisfaction(last_transfer.subject, last_transfer.destination)
          < dissatisfaction(Unwrap(last_transfer.evicted), last_transfer.destination)

\* Every input group is a key of the group map of the result, a group no
\* subject is mapped to has the empty list, and without groups and subjects
\* both maps are empty
EveryGroupIsAKey(result) ==
    /\ DOMAIN result.group_ids_to_subjects_ids = 1..NumGroups
    /\ \A g \in 1..NumGroups :
          (\A s \in DOMAIN result.subject_ids_to_group_ids :
               result.subject_ids_to_group_ids[s] /= g)
              => (result.group_ids_to_subjects_ids[g] = <<>>)
    /\ (NumGroups = 0 /\ NumSubjects = 0)
          => /\ result.subject_ids_to_group_ids = <<>>
             /\ result.group_ids_to_subjects_ids = <<>>

\* C37: in the Assignment returned by either assigner every input group is
\* a key of the group-to-subjects map, mapped to the empty list when no
\* subject is assigned to it; with no groups and no subjects the Assignment
\* consists of two empty maps.
C37_EveryGroupIsAKey ==
    \A result \in {fcfs_result, pr_result} : Returned(result) => EveryGroupIsAKey(result)

\* An Assignment has been returned in which one group has subjects and
\* another group has none
C37_Witness ==
    \E result \in {fcfs_result, pr_result} :
        /\ Returned(result)
        /\ NumGroups >= 2
        /\ \E g \in DOMAIN result.group_ids_to_subjects_ids :
              result.group_ids_to_subjects_ids[g] = <<>>
        /\ \E g \in DOMAIN result.group_ids_to_subjects_ids :
              result.group_ids_to_subjects_ids[g] /= <<>>

\* The Membership Offer inside the answer of the available registry at
\* position i to the overfull registry whose turn it is
OfferOf(i) == Unwrap(offers_for(overfull[overfull_index])[i]).membership_offer

\* The available registry at position i answers with an offer
MakesOffer(i) == IsSome(offers_for(overfull[overfull_index])[i])

\* C38: every Membership Offer made in a run carries no improvement when
\* the registry making it is not full and a strictly negative improvement
\* when it is full, never zero or a positive one; an offer asks for an
\* eviction exactly when its registry is full, and the transfer made on the
\* chosen offer evicts a member exactly when the destination was full.
C38_OfferImprovement ==
    /\ AtTurn =>
          \A i \in 1..Len(available) :
              MakesOffer(i) =>
                  LET destination_full ==
                          Len(available[i].subjects) >= capacity(available[i].group)
                      improvement == OfferOf(i).dissatisfaction_improvement
                  IN /\ destination_full => (IsSome(improvement) /\ Unwrap(improvement) < 0)
                     /\ ~destination_full => (improvement = None)
                     /\ replace_least_happy_member_upon_transferral(
                            Unwrap(offers_for(overfull[overfull_index])[i]))
                          <=> destination_full
    /\ (last_transfer /= NoTransfer) =>
          (IsSome(last_transfer.evicted)
              <=> (Len(last_transfer.destination_before)
                      >= capacity(last_transfer.destination)))

\* At one turn a full available registry offers a place by eviction while
\* another available registry offers a free place
C38_Witness ==
    /\ AtTurn
    /\ \E i, j \in 1..Len(available) :
          /\ MakesOffer(i)
          /\ MakesOffer(j)
          /\ IsSome(OfferOf(i).dissatisfaction_improvement)
          /\ OfferOf(j).dissatisfaction_improvement = None
====
